---- MODULE Spec2Model ----
(***************************************************************************)
(* Model of trek's MigrationIndex (src/src/migration_index.rs): the        *)
(* ordered registry of migrations, the marker table "schema_version"      *)
(* whose single column name is the persisted marker, and the run() and     *)
(* rollback() algorithms, one action per database call they make.          *)
(*                                                                         *)
(* Indices are 0-based as in the source: Get(migrations, i) is             *)
(* migrations[i].  Option<T> is a sequence of length at most one:          *)
(* None == <<>>, Some(v) == <<v>>.                                         *)
(***************************************************************************)
EXTENDS Integers, Sequences, FiniteSets, TLC

\* ---------------------------------------------------------------- bounds
MaxMigrations == 3      \* longest migration list handed to MigrationIndex::new
NumNames == 3           \* distinct display strings (to_string()) of migrations
NumVersions == 2        \* distinct version() values of migrations

Names == 1..NumNames
Versions == 1..NumVersions
\* a column name that no migration of any registry displays as
Legacy == 0

VARIABLES
    migrations,     \* MigrationIndex.migrations, fixed by new()
    columns,        \* column names of table schema_version; {} = no table
    applied,        \* indices whose up() completed and was not reverted
    call,           \* per caller: the position and locals of its current call
    scenario        \* history: <<k>> = k successful rollbacks since a clean
                    \* successful run(), <<>> = outside that scenario

vars == <<migrations, columns, applied, call, scenario>>

\* ------------------------------------------------------------- Option<T>
None == <<>>
Some(v) == <<v>>
IsSome(o) == Len(o) = 1
Unwrap(o) == o[1]

\* ------------------------------------------------------------- Migration
\* a Migration: its Display string and its version()
Migration == [name : Names, version : Versions]

\* migrations[i], 0-based
Get(ms, i) == ms[i + 1]

\* migration.to_string()
to_string(m) == m.name

\* migration.version().serialize(): the RFC 3339 string of the version, as
\* a column name.  No migration of the repository displays as its RFC 3339
\* string (tests: "%Y%m%d%H%M%S"; examples: the file name), so these names
\* are apart from Names and Legacy
serialize(version) == 0 - version

\* MigrationVersion::from_rfc3339_string(string): the version whose RFC 3339
\* string it is, or a ParseError; display strings and the unregistered column
\* name are not RFC 3339 strings
from_rfc3339_string(string) ==
    IF string < 0 THEN [status |-> "ok", value |-> 0 - string]
    ELSE [status |-> "err", value |-> 0]

\* ------------------------------------------------- MigrationIndex helpers
\* &self.migrations[lo..] does not panic: lo is at most the length
SliceInBounds(ms, lo) == lo \in 0..Len(ms)

\* self.migrations.get(i) is Some: i is the index of an entry
GetInBounds(ms, i) == i \in 0..(Len(ms) - 1)

current_index_one_based(ms, current_version) ==
    LET hits == {i \in 0..(Len(ms) - 1) : to_string(Get(ms, i)) = current_version}
    IN IF hits = {} THEN None
       ELSE Some((CHOOSE i \in hits : \A j \in hits : i <= j) + 1)

\* self.migrations.iter().position(|m| m.to_string() == *current_version)
current_index(ms, current_version) ==
    LET hits == {i \in 0..(Len(ms) - 1) : to_string(Get(ms, i)) = current_version}
    IN IF hits = {} THEN None
       ELSE Some(CHOOSE i \in hits : \A j \in hits : i <= j)

\* the 0-based indices lo, lo+1, .., n-1 : the slice &migrations[lo..]
SliceFrom(ms, lo) == [k \in 1..(Len(ms) - lo) |-> lo + k - 1]

outstanding_skip_first(ms, current_version) ==
    IF IsSome(current_version)
    THEN LET ci == current_index(ms, Unwrap(current_version))
         IN IF IsSome(ci) THEN SliceFrom(ms, Unwrap(ci) + 1)
            ELSE SliceFrom(ms, 0)
    ELSE SliceFrom(ms, IF Len(ms) > 0 THEN 1 ELSE 0)

outstanding_from_current(ms, current_version) ==
    IF IsSome(current_version)
    THEN LET ci == current_index(ms, Unwrap(current_version))
         IN IF IsSome(ci) THEN SliceFrom(ms, Unwrap(ci))
            ELSE SliceFrom(ms, 0)
    ELSE SliceFrom(ms, 0)

outstanding_unknown_is_current(ms, current_version) ==
    IF IsSome(current_version)
    THEN LET ci == current_index(ms, Unwrap(current_version))
         IN IF IsSome(ci) THEN SliceFrom(ms, Unwrap(ci) + 1)
            ELSE SliceFrom(ms, Len(ms))
    ELSE SliceFrom(ms, 0)

\* the indices of seq, reordered by ascending version() (ties by index)
SortedByVersion(ms, seq) ==
    LET S == {seq[k] : k \in 1..Len(seq)}
        key(i) == Get(ms, i).version * (Len(ms) + 1) + i
    IN IF S = {} THEN <<>>
       ELSE CHOOSE t \in [1..Cardinality(S) -> S] :
              \A a, b \in 1..Cardinality(S) : a < b => key(t[a]) < key(t[b])

outstanding_sorted_by_version(ms, current_version) ==
    IF IsSome(current_version)
    THEN LET ci == current_index(ms, Unwrap(current_version))
         IN IF IsSome(ci)
            THEN SortedByVersion(ms, SliceFrom(ms, Unwrap(ci) + 1))
            ELSE SortedByVersion(ms, SliceFrom(ms, 0))
    ELSE SortedByVersion(ms, SliceFrom(ms, 0))

\* the outstanding migrations, as the indices of the slice the source returns
outstanding_migrations(ms, current_version) ==
    IF IsSome(current_version)
    THEN LET ci == current_index(ms, Unwrap(current_version))
         IN IF IsSome(ci) THEN SliceFrom(ms, Unwrap(ci) + 1)
            ELSE SliceFrom(ms, 0)
    ELSE SliceFrom(ms, 0)

\* ------------------------------------------------------------ the database
\* rows of: SELECT column_name FROM information_schema.columns
\*          WHERE table_name='schema_version' LIMIT 1
\* (no ORDER BY: any one of the table's columns)
QueryColumnName(cols) ==
    IF cols = {} THEN {<<>>} ELSE {<<c>> : c \in cols}

\* schema_version() on a query result
schema_version_of(result) ==
    CASE Len(result) = 0 -> [status |-> "ok", value |-> None]
      [] Len(result) = 1 -> [status |-> "ok", value |-> Some(result[1])]
      [] OTHER -> [status |-> "panic", value |-> None]

\* the outcomes of schema_version(connection) when the query itself succeeds
schema_version(cols) == {schema_version_of(r) : r \in QueryColumnName(cols)}

update_schema_version_recreates_table(cols, old_version, new_version) ==
    CASE IsSome(old_version) /\ IsSome(new_version) ->
            IF cols # {}
            THEN [status |-> "ok", columns |-> {Unwrap(new_version)}]
            ELSE [status |-> "err", columns |-> cols]
      [] ~IsSome(old_version) /\ IsSome(new_version) ->
            IF cols = {}
            THEN [status |-> "ok", columns |-> {Unwrap(new_version)}]
            ELSE [status |-> "err", columns |-> cols]
      [] IsSome(old_version) /\ ~IsSome(new_version) ->
            IF cols # {}
            THEN [status |-> "ok", columns |-> {}]
            ELSE [status |-> "err", columns |-> cols]
      [] OTHER -> [status |-> "panic", columns |-> cols]

update_schema_version_create_if_not_exists(cols, old_version, new_version) ==
    CASE IsSome(old_version) /\ IsSome(new_version) ->
            IF Unwrap(old_version) \in cols /\ Unwrap(new_version) \notin cols
            THEN [status |-> "ok",
                  columns |-> (cols \ {Unwrap(old_version)}) \cup {Unwrap(new_version)}]
            ELSE [status |-> "err", columns |-> cols]
      [] ~IsSome(old_version) /\ IsSome(new_version) ->
            IF cols = {}
            THEN [status |-> "ok", columns |-> {Unwrap(new_version)}]
            ELSE [status |-> "ok", columns |-> cols]
      [] IsSome(old_version) /\ ~IsSome(new_version) ->
            IF cols # {}
            THEN [status |-> "ok", columns |-> {}]
            ELSE [status |-> "err", columns |-> cols]
      [] OTHER -> [status |-> "panic", columns |-> cols]

update_schema_version_adds_column(cols, old_version, new_version) ==
    CASE IsSome(old_version) /\ IsSome(new_version) ->
            IF Unwrap(old_version) \in cols /\ Unwrap(new_version) \notin cols
            THEN [status |-> "ok", columns |-> cols \cup {Unwrap(new_version)}]
            ELSE [status |-> "err", columns |-> cols]
      [] ~IsSome(old_version) /\ IsSome(new_version) ->
            IF cols = {}
            THEN [status |-> "ok", columns |-> {Unwrap(new_version)}]
            ELSE [status |-> "err", columns |-> cols]
      [] IsSome(old_version) /\ ~IsSome(new_version) ->
            IF cols # {}
            THEN [status |-> "ok", columns |-> {}]
            ELSE [status |-> "err", columns |-> cols]
      [] OTHER -> [status |-> "panic", columns |-> cols]

update_schema_version_keeps_table(cols, old_version, new_version) ==
    CASE IsSome(old_version) /\ IsSome(new_version) ->
            IF Unwrap(old_version) \in cols /\ Unwrap(new_version) \notin cols
            THEN [status |-> "ok",
                  columns |-> (cols \ {Unwrap(old_version)}) \cup {Unwrap(new_version)}]
            ELSE [status |-> "err", columns |-> cols]
      [] ~IsSome(old_version) /\ IsSome(new_version) ->
            IF cols = {}
            THEN [status |-> "ok", columns |-> {Unwrap(new_version)}]
            ELSE [status |-> "err", columns |-> cols]
      [] IsSome(old_version) /\ ~IsSome(new_version) ->
            [status |-> "ok", columns |-> cols]
      [] OTHER -> [status |-> "panic", columns |-> cols]

\* update_schema_version(connection, old_version, new_version) on a
\* connection whose statements execute: RENAME COLUMN needs the old column
\* and no column of the new name, CREATE TABLE needs no table, DROP TABLE
\* needs the table.
update_schema_version(cols, old_version, new_version) ==
    CASE IsSome(old_version) /\ IsSome(new_version) ->
            IF Unwrap(old_version) \in cols /\ Unwrap(new_version) \notin cols
            THEN [status |-> "ok",
                  columns |-> (cols \ {Unwrap(old_version)}) \cup {Unwrap(new_version)}]
            ELSE [status |-> "err", columns |-> cols]
      [] ~IsSome(old_version) /\ IsSome(new_version) ->
            IF cols = {}
            THEN [status |-> "ok", columns |-> {Unwrap(new_version)}]
            ELSE [status |-> "err", columns |-> cols]
      [] IsSome(old_version) /\ ~IsSome(new_version) ->
            IF cols # {}
            THEN [status |-> "ok", columns |-> {}]
            ELSE [status |-> "err", columns |-> cols]
      [] OTHER -> [status |-> "panic", columns |-> cols]

\* the statement is sent; the connection may fail it whatever its content
Execute(cols, old_version, new_version, connection_ok) ==
    LET r == update_schema_version(cols, old_version, new_version)
    IN IF r.status = "ok" /\ ~connection_ok
       THEN [status |-> "err", columns |-> cols]
       ELSE r

\* ----------------------------------------------------------------- calls
NoResult == [kind |-> "None", message |-> "", migration |-> -1]
Ok == [kind |-> "Ok", message |-> "", migration |-> -1]
Err(message, i) == [kind |-> "Err", message |-> message, migration |-> i]
Panic(message) == [kind |-> "Panic", message |-> message, migration |-> -1]

Idle ==
    [op |-> "none", pc |-> "idle", schema_version |-> None,
     outstanding |-> <<>>, old_migration_index |-> 0, result |-> NoResult,
     v0 |-> None, failure |-> "none",
     ups |-> <<>>, downs |-> <<>>, writes |-> <<>>,
     start_columns |-> {}, start_applied |-> {}, retry_of |-> None,
     undone |-> None]

\* a caller enters op with the database as it is now
Enter(op, pc) ==
    [Idle EXCEPT !.op = op, !.pc = pc,
                 !.start_columns = columns, !.start_applied = applied]

\* the call returns (or aborts) with result
Return(c, result) == [c EXCEPT !.pc = "returned", !.result = result]

\* the database call or migration body at phase failed in this call
Failed(c, phase) == [c EXCEPT !.failure = phase]

\* Err(Error::new("Error reading current schema version", error))
ReadErrorRun == Err("Error reading current schema version", -1)

\* Err(Error::new("Error updating schema version", error))
UpdateErrorRun == Err("Error updating schema version", -1)

ApplyError_unwrap(i) == Panic("called Result::unwrap() on an Err value")

\* Err(Error::new(format!("Error applying migration {}", migration), error))
ApplyError(i) == Err("Error applying migration", i)

\* Err(Error::new("Failed to get current database schema version", error))
ReadErrorRollback == Err("Failed to get current database schema version", -1)

\* Err(Error::new(format!("Failed to update schema version table when
\* rolling back migration {}", ..), error)): the 0 arm formats old_migration,
\* the other arm formats new_migration
UpdateErrorRollback(old_migration_index) ==
    Err("Failed to update schema version table when rolling back migration",
        IF old_migration_index = 0 THEN old_migration_index
        ELSE old_migration_index - 1)

DownError_unwrap(i) == Panic("called Result::unwrap() on an Err value")

\* Err(Error::new(format!("The down() method of database migration {}
\* failed", old_migration), error))
DownError(i) == Err("The down() method of database migration failed", i)

\* history of the scenario "a clean successful run(), then k successful
\* rollbacks": advanced when a call returns
ScenarioAfter(c, result) ==
    CASE c.op = "run" /\ result.kind = "Ok"
              /\ (c.start_columns = {} \/ scenario # <<>>) -> <<0>>
      [] c.op = "rollback" /\ result.kind = "Ok" /\ scenario # <<>> ->
              IF IsSome(c.v0) THEN <<scenario[1] + 1>> ELSE scenario
      [] OTHER -> <<>>

\* the migrations run() found outstanding in call c: those whose up() has
\* completed, then those still in the loop
Computed(c) ==
    SubSeq(c.ups, 1, IF c.failure = "up" THEN Len(c.ups) - 1 ELSE Len(c.ups))
        \o c.outstanding

\* Some(what the previous call found outstanding) when that call was a
\* run() that got past the version read, failed, and had its transaction
\* rolled back
RetryOf(c) ==
    IF c.pc = "rolled_back" /\ c.op = "run" /\ c.failure # "read"
    THEN Some(Computed(c)) ELSE None

\* Some(the database the previous call started from) when that call was a
\* rollback() that returned Ok after reverting a migration
Undone(c) ==
    IF c.pc = "returned" /\ c.op = "rollback" /\ c.result = Ok /\ c.downs # <<>>
    THEN Some([columns |-> c.start_columns, applied |-> c.start_applied])
    ELSE None

\* run() and rollback() only compare display strings for equality
\* (current_index), so migration lists are enumerated up to a renaming of
\* the strings: each entry repeats an earlier string or takes the next one
FirstUse(ms) ==
    \A k \in 1..Len(ms) :
        \/ ms[k].name = 1
        \/ \E j \in 1..(k - 1) : ms[j].name >= ms[k].name - 1

\* MigrationIndex::new(migrations) with any list, duplicates and any
\* version order included; the database is fresh, or carries the marker of
\* a migration this index does not contain
Init ==
    /\ migrations \in {ms \in UNION {[1..n -> Migration] : n \in 0..MaxMigrations} :
                          FirstUse(ms)}
    /\ columns \in {{}, {Legacy}}
    /\ applied = {}
    /\ call = [p \in {1} |-> Idle]
    /\ scenario = <<>>

\* the same index over a marker table that was altered from outside: it has
\* a second column
InitTampered ==
    /\ migrations \in {ms \in UNION {[1..n -> Migration] : n \in 0..MaxMigrations} :
                          FirstUse(ms)}
    /\ columns = {Legacy, 1}
    /\ applied = {}
    /\ call = [p \in {1} |-> Idle]
    /\ scenario = <<>>

\* ------------------------------------------------------------------ run()
\* a caller that is not inside a call invokes run(connection)
run_begin(p) ==
    /\ call[p].pc \in {"idle", "returned", "rolled_back"}
    /\ call' = [call EXCEPT ![p] =
                   [Enter("run", "run_schema_version") EXCEPT
                       !.retry_of = RetryOf(call[p]),
                       !.undone = Undone(call[p])]]
    /\ UNCHANGED <<migrations, columns, applied, scenario>>

run_schema_version_retries(p) ==
    /\ call[p].pc = "run_schema_version"
    /\ \E connection_ok \in BOOLEAN, r \in schema_version(columns) :
         LET c == call[p]
             out == outstanding_migrations(migrations, r.value)
             res == IF r.status = "panic"
                    THEN Panic("multiple rows")
                    ELSE IF out = <<>> THEN Ok ELSE NoResult
         IN IF ~connection_ok
            THEN /\ call' = [call EXCEPT ![p] = Failed(c, "read")]
                 /\ UNCHANGED scenario
            ELSE IF res.kind = "None"
            THEN /\ call' = [call EXCEPT ![p] =
                        [c EXCEPT !.pc = "run_update_schema_version",
                                  !.schema_version = r.value,
                                  !.v0 = r.value,
                                  !.outstanding = out]]
                 /\ UNCHANGED scenario
            ELSE LET c1 == [c EXCEPT !.v0 = r.value, !.schema_version = r.value]
                 IN /\ call' = [call EXCEPT ![p] = Return(c1, res)]
                    /\ scenario' = ScenarioAfter(c1, res)
    /\ UNCHANGED <<migrations, columns, applied>>

\* let mut schema_version = match MigrationIndex::schema_version(connection);
\* then the loop header: self.outstanding_migrations(schema_version.clone())
run_schema_version(p) ==
    /\ call[p].pc = "run_schema_version"
    /\ \E connection_ok \in BOOLEAN, r \in schema_version(columns) :
         LET c == call[p]
             out == outstanding_migrations(migrations, r.value)
             res == IF ~connection_ok THEN ReadErrorRun
                    ELSE IF r.status = "panic"
                    THEN Panic("multiple rows")
                    ELSE IF out = <<>> THEN Ok ELSE NoResult
         IN IF res.kind = "None"
            THEN /\ call' = [call EXCEPT ![p] =
                        [c EXCEPT !.pc = "run_update_schema_version",
                                  !.schema_version = r.value,
                                  !.v0 = r.value,
                                  !.outstanding = out]]
                 /\ UNCHANGED scenario
            ELSE LET c1 == IF connection_ok
                           THEN [c EXCEPT !.v0 = r.value, !.schema_version = r.value]
                           ELSE Failed(c, "read")
                 IN /\ call' = [call EXCEPT ![p] = Return(c1, res)]
                    /\ scenario' = ScenarioAfter(c1, res)
    /\ UNCHANGED <<migrations, columns, applied>>

run_update_schema_version_passes_current_twice(p) ==
    /\ call[p].pc = "run_update_schema_version"
    /\ \E connection_ok \in BOOLEAN :
         LET c == call[p]
             i == Head(c.outstanding)
             new_version == c.schema_version
             r == Execute(columns, c.schema_version, new_version, connection_ok)
             w == [old |-> c.schema_version, new |-> new_version,
                   status |-> r.status]
             c1 == [c EXCEPT !.writes = Append(@, w)]
         IN /\ columns' = r.columns
            /\ IF r.status = "ok"
               THEN /\ call' = [call EXCEPT ![p] = [c1 EXCEPT !.pc = "run_up"]]
                    /\ UNCHANGED scenario
               ELSE LET res == IF r.status = "panic"
                               THEN Panic("None to None")
                               ELSE UpdateErrorRun
                    IN /\ call' = [call EXCEPT ![p] =
                              Return(Failed(c1, "update"), res)]
                       /\ scenario' = ScenarioAfter(c, res)
    /\ UNCHANGED <<migrations, applied>>

run_update_schema_version_ignores_error(p) ==
    /\ call[p].pc = "run_update_schema_version"
    /\ \E connection_ok \in BOOLEAN :
         LET c == call[p]
             i == Head(c.outstanding)
             new_version == Some(to_string(Get(migrations, i)))
             r == Execute(columns, c.schema_version, new_version, connection_ok)
             w == [old |-> c.schema_version, new |-> new_version,
                   status |-> r.status]
             c1 == [c EXCEPT !.writes = Append(@, w)]
         IN /\ columns' = r.columns
            /\ call' = [call EXCEPT ![p] = [c1 EXCEPT !.pc = "run_up"]]
            /\ UNCHANGED scenario
    /\ UNCHANGED <<migrations, applied>>

\* MigrationIndex::update_schema_version(connection, schema_version,
\*                                       Some(migration.to_string()))
run_update_schema_version(p) ==
    /\ call[p].pc = "run_update_schema_version"
    /\ \E connection_ok \in BOOLEAN :
         LET c == call[p]
             i == Head(c.outstanding)
             new_version == Some(to_string(Get(migrations, i)))
             r == Execute(columns, c.schema_version, new_version, connection_ok)
             w == [old |-> c.schema_version, new |-> new_version,
                   status |-> r.status]
             c1 == [c EXCEPT !.writes = Append(@, w)]
         IN /\ columns' = r.columns
            /\ IF r.status = "ok"
               THEN /\ call' = [call EXCEPT ![p] = [c1 EXCEPT !.pc = "run_up"]]
                    /\ UNCHANGED scenario
               ELSE LET res == IF r.status = "panic"
                               THEN Panic("None to None")
                               ELSE UpdateErrorRun
                    IN /\ call' = [call EXCEPT ![p] =
                              Return(Failed(c1, "update"), res)]
                       /\ scenario' = ScenarioAfter(c, res)
    /\ UNCHANGED <<migrations, applied>>

run_up_repeats_migration(p) ==
    /\ call[p].pc = "run_up"
    /\ \E up_ok \in BOOLEAN :
         LET c == call[p]
             i == Head(c.outstanding)
             c1 == [c EXCEPT !.ups = Append(@, i)]
         IN IF ~up_ok
            THEN LET res == ApplyError(i)
                 IN /\ call' = [call EXCEPT ![p] = Return(Failed(c1, "up"), res)]
                    /\ scenario' = ScenarioAfter(c, res)
                    /\ UNCHANGED applied
            ELSE LET c2 == [c1 EXCEPT
                              !.schema_version = Some(to_string(Get(migrations, i)))]
                 IN /\ applied' = applied \cup {i}
                    /\ call' = [call EXCEPT ![p] =
                           [c2 EXCEPT !.pc = "run_update_schema_version"]]
                    /\ UNCHANGED scenario
    /\ UNCHANGED <<migrations, columns>>

run_up_keeps_schema_version(p) ==
    /\ call[p].pc = "run_up"
    /\ \E up_ok \in BOOLEAN :
         LET c == call[p]
             i == Head(c.outstanding)
             c1 == [c EXCEPT !.ups = Append(@, i)]
         IN IF ~up_ok
            THEN LET res == ApplyError(i)
                 IN /\ call' = [call EXCEPT ![p] = Return(Failed(c1, "up"), res)]
                    /\ scenario' = ScenarioAfter(c, res)
                    /\ UNCHANGED applied
            ELSE LET c2 == [c1 EXCEPT !.outstanding = Tail(@)]
                 IN /\ applied' = applied \cup {i}
                    /\ IF c2.outstanding = <<>>
                       THEN /\ call' = [call EXCEPT ![p] = Return(c2, Ok)]
                            /\ scenario' = ScenarioAfter(c, Ok)
                       ELSE /\ call' = [call EXCEPT ![p] =
                                   [c2 EXCEPT !.pc = "run_update_schema_version"]]
                            /\ UNCHANGED scenario
    /\ UNCHANGED <<migrations, columns>>

run_up_continues_after_failure(p) ==
    /\ call[p].pc = "run_up"
    /\ \E up_ok \in BOOLEAN :
         LET c == call[p]
             i == Head(c.outstanding)
             c1 == [c EXCEPT !.ups = Append(@, i)]
             c2 == [(IF up_ok THEN c1 ELSE Failed(c1, "up")) EXCEPT
                      !.schema_version = Some(to_string(Get(migrations, i))),
                      !.outstanding = Tail(@)]
             res == IF c2.failure = "none" THEN Ok ELSE ApplyError(i)
         IN /\ applied' = IF up_ok THEN applied \cup {i} ELSE applied
            /\ IF c2.outstanding = <<>>
               THEN /\ call' = [call EXCEPT ![p] = Return(c2, res)]
                    /\ scenario' = ScenarioAfter(c, res)
               ELSE /\ call' = [call EXCEPT ![p] =
                           [c2 EXCEPT !.pc = "run_update_schema_version"]]
                    /\ UNCHANGED scenario
    /\ UNCHANGED <<migrations, columns>>

\* migration.up(connection); schema_version = Some(migration.to_string());
\* then the next iteration, or Ok(()) when the slice is exhausted
run_up(p) ==
    /\ call[p].pc = "run_up"
    /\ \E up_ok \in BOOLEAN :
         LET c == call[p]
             i == Head(c.outstanding)
             c1 == [c EXCEPT !.ups = Append(@, i)]
         IN IF ~up_ok
            THEN LET res == ApplyError(i)
                 IN /\ call' = [call EXCEPT ![p] = Return(Failed(c1, "up"), res)]
                    /\ scenario' = ScenarioAfter(c, res)
                    /\ UNCHANGED applied
            ELSE LET c2 == [c1 EXCEPT
                              !.schema_version = Some(to_string(Get(migrations, i))),
                              !.outstanding = Tail(@)]
                 IN /\ applied' = applied \cup {i}
                    /\ IF c2.outstanding = <<>>
                       THEN /\ call' = [call EXCEPT ![p] = Return(c2, Ok)]
                            /\ scenario' = ScenarioAfter(c, Ok)
                       ELSE /\ call' = [call EXCEPT ![p] =
                                   [c2 EXCEPT !.pc = "run_update_schema_version"]]
                            /\ UNCHANGED scenario
    /\ UNCHANGED <<migrations, columns>>

\* ------------------------------------------------------------- rollback()
rollback_lookup_unwrap_none(ms, old_schema_version) ==
    IF ~IsSome(old_schema_version)
    THEN [result |-> Panic("called Option::unwrap() on a None value"), index |-> 0]
    ELSE LET ci == current_index(ms, Unwrap(old_schema_version))
         IN IF IsSome(ci) THEN [result |-> NoResult, index |-> Unwrap(ci)]
            ELSE [result |-> Panic("called Option::unwrap() on a None value"),
                  index |-> 0]

rollback_lookup_unwrap_or_first(ms, old_schema_version) ==
    IF ~IsSome(old_schema_version) \/ Len(ms) = 0
    THEN [result |-> Ok, index |-> 0]
    ELSE LET ci == current_index(ms, Unwrap(old_schema_version))
         IN [result |-> NoResult, index |-> IF IsSome(ci) THEN Unwrap(ci) ELSE 0]

\* what rollback() does with the version it read: None => return Ok(());
\* Some(v) => old_migration_index = self.current_index(&v).unwrap()
rollback_lookup(ms, old_schema_version) ==
    IF ~IsSome(old_schema_version)
    THEN [result |-> Ok, index |-> 0]
    ELSE LET ci == current_index(ms, Unwrap(old_schema_version))
         IN IF IsSome(ci) THEN [result |-> NoResult, index |-> Unwrap(ci)]
            ELSE [result |-> Panic("called Option::unwrap() on a None value"),
                  index |-> 0]

rollback_target_first(ms, old_migration_index) ==
    IF old_migration_index = 0 THEN None
    ELSE Some(to_string(Get(ms, 0)))

rollback_target_two_back(ms, old_migration_index) ==
    IF old_migration_index <= 1 THEN None
    ELSE Some(to_string(Get(ms, old_migration_index - 2)))

rollback_target_drops_table(ms, old_migration_index) == None

\* the new_version argument of rollback()'s update_schema_version call:
\* None in the 0 arm, Some(new_migration.to_string()) with
\* new_migration = migrations[old_migration_index - 1] in the other arm
rollback_target(ms, old_migration_index) ==
    IF old_migration_index = 0 THEN None
    ELSE Some(to_string(Get(ms, old_migration_index - 1)))

rollback_begin(p) ==
    /\ call[p].pc \in {"idle", "returned", "rolled_back"}
    /\ call' = [call EXCEPT ![p] = Enter("rollback", "rollback_schema_version")]
    /\ UNCHANGED <<migrations, columns, applied, scenario>>

\* let old_schema_version = match MigrationIndex::schema_version(connection);
\* None => return Ok(()); self.current_index(&old_schema_version).unwrap()
rollback_schema_version(p) ==
    /\ call[p].pc = "rollback_schema_version"
    /\ \E connection_ok \in BOOLEAN, r \in schema_version(columns) :
         LET c == call[p]
             look == rollback_lookup(migrations, r.value)
             res == IF ~connection_ok THEN ReadErrorRollback
                    ELSE IF r.status = "panic"
                    THEN Panic("multiple rows")
                    ELSE look.result
         IN IF res.kind = "None"
            THEN /\ call' = [call EXCEPT ![p] =
                        [c EXCEPT !.pc = "rollback_update_schema_version",
                                  !.schema_version = r.value,
                                  !.v0 = r.value,
                                  !.old_migration_index = look.index]]
                 /\ UNCHANGED scenario
            ELSE LET c1 == IF connection_ok
                           THEN [c EXCEPT !.v0 = r.value, !.schema_version = r.value]
                           ELSE Failed(c, "read")
                 IN /\ call' = [call EXCEPT ![p] = Return(c1, res)]
                    /\ scenario' = ScenarioAfter(c1, res)
    /\ UNCHANGED <<migrations, columns, applied>>

rollback_update_schema_version_ignores_error(p) ==
    /\ call[p].pc = "rollback_update_schema_version"
    /\ \E connection_ok \in BOOLEAN :
         LET c == call[p]
             i == c.old_migration_index
             old_version == Some(to_string(Get(migrations, i)))
             new_version == rollback_target(migrations, i)
             r == Execute(columns, old_version, new_version, connection_ok)
             w == [old |-> old_version, new |-> new_version, status |-> r.status]
             c1 == [c EXCEPT !.writes = Append(@, w)]
         IN /\ columns' = r.columns
            /\ call' = [call EXCEPT ![p] = [c1 EXCEPT !.pc = "rollback_down"]]
            /\ UNCHANGED scenario
    /\ UNCHANGED <<migrations, applied>>

\* match old_migration_index { 0 => update_schema_version(Some(old), None),
\*   _ => update_schema_version(Some(old), Some(new_migration.to_string())) }
rollback_update_schema_version(p) ==
    /\ call[p].pc = "rollback_update_schema_version"
    /\ \E connection_ok \in BOOLEAN :
         LET c == call[p]
             i == c.old_migration_index
             old_version == Some(to_string(Get(migrations, i)))
             new_version == rollback_target(migrations, i)
             r == Execute(columns, old_version, new_version, connection_ok)
             w == [old |-> old_version, new |-> new_version, status |-> r.status]
             c1 == [c EXCEPT !.writes = Append(@, w)]
         IN /\ columns' = r.columns
            /\ IF r.status = "ok"
               THEN /\ call' = [call EXCEPT ![p] = [c1 EXCEPT !.pc = "rollback_down"]]
                    /\ UNCHANGED scenario
               ELSE LET res ==
                        IF r.status = "panic" THEN Panic("None to None")
                        ELSE UpdateErrorRollback(i)
                    IN /\ call' = [call EXCEPT ![p] =
                              Return(Failed(c1, "update"), res)]
                       /\ scenario' = ScenarioAfter(c, res)
    /\ UNCHANGED <<migrations, applied>>

rollback_down_of_target(p) ==
    /\ call[p].pc = "rollback_down"
    /\ \E down_ok \in BOOLEAN :
         LET c == call[p]
             i == IF c.old_migration_index = 0 THEN 0
                  ELSE c.old_migration_index - 1
             c1 == [c EXCEPT !.downs = Append(@, i)]
             res == IF down_ok THEN Ok ELSE DownError(i)
         IN /\ call' = [call EXCEPT ![p] =
                   Return(IF down_ok THEN c1 ELSE Failed(c1, "down"), res)]
            /\ scenario' = ScenarioAfter(c, res)
            /\ applied' = IF down_ok THEN applied \ {i} ELSE applied
    /\ UNCHANGED <<migrations, columns>>

\* old_migration.down(connection); Ok(())
rollback_down(p) ==
    /\ call[p].pc = "rollback_down"
    /\ \E down_ok \in BOOLEAN :
         LET c == call[p]
             i == c.old_migration_index
             c1 == [c EXCEPT !.downs = Append(@, i)]
             res == IF down_ok THEN Ok ELSE DownError(i)
         IN /\ call' = [call EXCEPT ![p] =
                   Return(IF down_ok THEN c1 ELSE Failed(c1, "down"), res)]
            /\ scenario' = ScenarioAfter(c, res)
            /\ applied' = IF down_ok THEN applied \ {i} ELSE applied
    /\ UNCHANGED <<migrations, columns>>

\* ------------------------------------------------------------ transactions
transaction_rollback_keeps_marker(p) ==
    /\ call[p].pc = "returned"
    /\ call[p].result.kind = "Err"
    /\ applied' = call[p].start_applied
    /\ call' = [call EXCEPT ![p].pc = "rolled_back"]
    /\ UNCHANGED <<migrations, columns, scenario>>

\* ---------------------------------------------------------------- progress
\* a statement of a call that has been entered: the version read, a marker
\* update, or a migration body
Step ==
    \E p \in DOMAIN call :
        \/ run_schema_version(p)
        \/ run_update_schema_version(p)
        \/ run_up(p)
        \/ rollback_schema_version(p)
        \/ rollback_update_schema_version(p)
        \/ rollback_down(p)

\* the call ran on a Transaction the caller opened for it and returned Err:
\* the caller drops the transaction without commit, which undoes every
\* statement of the call
transaction_rollback(p) ==
    /\ call[p].pc = "returned"
    /\ call[p].result.kind = "Err"
    /\ columns' = call[p].start_columns
    /\ applied' = call[p].start_applied
    /\ call' = [call EXCEPT ![p].pc = "rolled_back"]
    /\ UNCHANGED <<migrations, scenario>>

\* -------------------------------------------------------------- behaviours
Next ==
    \/ \E p \in DOMAIN call : run_begin(p)
    \/ \E p \in DOMAIN call : run_schema_version(p)
    \/ \E p \in DOMAIN call : run_update_schema_version(p)
    \/ \E p \in DOMAIN call : run_up(p)
    \/ \E p \in DOMAIN call : rollback_begin(p)
    \/ \E p \in DOMAIN call : rollback_schema_version(p)
    \/ \E p \in DOMAIN call : rollback_update_schema_version(p)
    \/ \E p \in DOMAIN call : rollback_down(p)
    \/ \E p \in DOMAIN call : transaction_rollback(p)

Spec == Init /\ [][Next]_vars

SpecTampered == InitTampered /\ [][Next]_vars

\* a registry of pairwise distinct display strings, no marker table
InitDistinct ==
    /\ Init
    /\ columns = {}
    /\ \A i, j \in 1..Len(migrations) :
          i # j => to_string(migrations[i]) # to_string(migrations[j])

\* no statement and no migration body of any call has failed
NoFailure == \A p \in DOMAIN call : call[p].failure = "none"

\* the calls on a database whose statements and migration bodies all succeed
NextNoFailure ==
    \/ \E p \in DOMAIN call : run_begin(p) /\ NoFailure'
    \/ \E p \in DOMAIN call : run_schema_version(p) /\ NoFailure'
    \/ \E p \in DOMAIN call : run_update_schema_version(p) /\ NoFailure'
    \/ \E p \in DOMAIN call : run_up(p) /\ NoFailure'
    \/ \E p \in DOMAIN call : rollback_begin(p) /\ NoFailure'
    \/ \E p \in DOMAIN call : rollback_schema_version(p) /\ NoFailure'
    \/ \E p \in DOMAIN call : rollback_update_schema_version(p) /\ NoFailure'
    \/ \E p \in DOMAIN call : rollback_down(p) /\ NoFailure'

SpecNoFailure == InitDistinct /\ [][NextNoFailure]_vars

\* two callers, each on its own connection to the one database, over a
\* registry of pairwise distinct display strings; the database has no marker
\* table, an unregistered marker, or the marker of an entry with the list
\* prefix ending there applied
InitTwoCallers ==
    /\ migrations \in {ms \in UNION {[1..n -> Migration] : n \in 0..MaxMigrations} :
                          /\ FirstUse(ms)
                          /\ \A i, j \in 1..Len(ms) :
                                i # j => to_string(ms[i]) # to_string(ms[j])}
    /\ \E i \in -2..(Len(migrations) - 1) :
          /\ columns = IF i = -2 THEN {} ELSE IF i = -1 THEN {Legacy}
                       ELSE {to_string(Get(migrations, i))}
          /\ applied = 0..i
    /\ call = [p \in {1, 2} |-> Idle]
    /\ scenario = <<>>

\* each caller calls run() once; statements of the two calls interleave
NextTwoRuns ==
    \/ \E p \in DOMAIN call : call[p].pc = "idle" /\ run_begin(p)
    \/ \E p \in DOMAIN call : run_schema_version(p)
    \/ \E p \in DOMAIN call : run_update_schema_version(p)
    \/ \E p \in DOMAIN call : run_up(p)

SpecTwoRuns == InitTwoCallers /\ [][NextTwoRuns]_vars

\* caller 1 calls run() once and caller 2 calls rollback() once; statements
\* of the two calls interleave
NextRunAndRollback ==
    \/ call[1].pc = "idle" /\ run_begin(1)
    \/ run_schema_version(1)
    \/ run_update_schema_version(1)
    \/ run_up(1)
    \/ call[2].pc = "idle" /\ rollback_begin(2)
    \/ rollback_schema_version(2)
    \/ rollback_update_schema_version(2)
    \/ rollback_down(2)

SpecRunAndRollback == InitTwoCallers /\ [][NextRunAndRollback]_vars

\* every database call and every migration body eventually returns
SpecReturning == Init /\ [][Next]_vars /\ WF_vars(Step)

\* ------------------------------------------------------------- vocabulary
N == Len(migrations)
NameAt(i) == to_string(Get(migrations, i))
LastName == NameAt(N - 1)
DistinctNames == \A i, j \in 0..(N - 1) : i # j => NameAt(i) # NameAt(j)
\* the migrations whose up() call c invoked
Ups(c) == {c.ups[k] : k \in 1..Len(c.ups)}

Returned(c, op) == c.op = op /\ c.pc = "returned"
\* no caller is inside a call
Quiescent == \A p \in DOMAIN call : call[p].pc \in {"idle", "returned"}
\* s is an initial segment of t
IsPrefix(s, t) == Len(s) <= Len(t) /\ \A k \in 1..Len(s) : s[k] = t[k]
\* the call changed neither the marker table nor the applied migrations
Untouched(c) == columns = c.start_columns /\ applied = c.start_applied

\* --------------------------------------------------------------------- C1
\* C1: a run() that starts with no marker table and in which no database
\* call fails returns Ok, has invoked up() of every migration exactly once
\* in list order, and leaves the marker at the last migration's marker.
C1_RunOnEmptyDatabase ==
    \A p \in DOMAIN call :
        LET c == call[p]
        IN (Returned(c, "run") /\ c.start_columns = {} /\ c.failure = "none")
           => /\ c.result = Ok
              /\ c.ups = SliceFrom(migrations, 0)
              /\ columns = IF N = 0 THEN {} ELSE {LastName}

C1_Witness ==
    \E p \in DOMAIN call :
        /\ Returned(call[p], "run")
        /\ call[p].start_columns = {}
        /\ call[p].failure = "none"
        /\ N >= 2
        /\ Len(call[p].ups) = N

\* --------------------------------------------------------------------- C2
\* C2 as stated: when the marker read by run() equals the marker of the
\* last list entry, run() returns Ok with no up() call and no marker write,
\* and the marker and the applied migrations are unchanged.
C2_Original ==
    \A p \in DOMAIN call :
        LET c == call[p]
        IN (Returned(c, "run") /\ N > 0 /\ c.failure # "read"
              /\ c.start_columns = {LastName})
           => /\ c.result = Ok
              /\ c.ups = <<>>
              /\ c.writes = <<>>
              /\ Untouched(c)

\* C2 amended: the same, provided no earlier list entry has the marker of
\* the last entry (current_index finds the last entry).
C2_MarkerAtLastIsNoOp ==
    \A p \in DOMAIN call :
        LET c == call[p]
        IN (Returned(c, "run") /\ N > 0 /\ c.failure # "read"
              /\ c.start_columns = {LastName}
              /\ current_index(migrations, LastName) = Some(N - 1))
           => /\ c.result = Ok
              /\ c.ups = <<>>
              /\ c.writes = <<>>
              /\ Untouched(c)

C2_Witness ==
    \E p \in DOMAIN call :
        /\ Returned(call[p], "run")
        /\ N >= 2
        /\ call[p].start_columns = {LastName}
        /\ current_index(migrations, LastName) = Some(N - 1)
        /\ call[p].result = Ok
        /\ applied # {}

C5_RollbackStepsBackOne ==
    /\ \A p \in DOMAIN call :
          LET c == call[p]
              i == c.old_migration_index
          IN (Returned(c, "rollback") /\ c.result = Ok /\ DistinctNames
                /\ IsSome(c.v0) /\ i > 0)
             => /\ c.downs = <<i>>
                /\ c.start_columns = {NameAt(i)}
                /\ columns = {NameAt(i - 1)}
    /\ (Quiescent /\ DistinctNames /\ scenario # <<>> /\ scenario[1] < N)
          => /\ applied = 0..(N - scenario[1] - 1)
             /\ columns = {NameAt(N - scenario[1] - 1)}

C5_Witness ==
    \E p \in DOMAIN call :
        /\ Returned(call[p], "rollback")
        /\ call[p].result = Ok
        /\ DistinctNames
        /\ N >= 3
        /\ scenario = <<2>>
        /\ call[p].old_migration_index = 1

\* --------------------------------------------------------------------- C6
\* C6: a successful rollback() when the marker names the first migration
\* drops the marker table, so schema_version() then returns None, and it
\* invokes down() of the first migration and of no other.
C6_RollbackOfFirstDropsTable ==
    \A p \in DOMAIN call :
        LET c == call[p]
        IN (Returned(c, "rollback") /\ c.result = Ok /\ N > 0
              /\ c.start_columns = {NameAt(0)})
           => /\ columns = {}
              /\ schema_version(columns) = {[status |-> "ok", value |-> None]}
              /\ c.downs = <<0>>
              /\ c.writes = <<[old |-> Some(NameAt(0)), new |-> None,
                               status |-> "ok"]>>

C6_Witness ==
    \E p \in DOMAIN call :
        /\ Returned(call[p], "rollback")
        /\ call[p].result = Ok
        /\ N > 0
        /\ call[p].start_columns = {NameAt(0)}
        /\ 0 \in call[p].start_applied
        /\ applied = {}

\* --------------------------------------------------------------------- C7
\* C7: rollback() that reads no marker table returns Ok at once: no marker
\* write, no down(), database unchanged, for every registry.
C7_RollbackOnNoMarkerIsNoOp ==
    \A p \in DOMAIN call :
        LET c == call[p]
        IN (Returned(c, "rollback") /\ c.start_columns = {}
              /\ c.failure # "read")
           => /\ c.result = Ok
              /\ c.writes = <<>>
              /\ c.downs = <<>>
              /\ Untouched(c)

C7_Witness ==
    \E p \in DOMAIN call :
        /\ Returned(call[p], "rollback")
        /\ call[p].start_columns = {}
        /\ call[p].result = Ok
        /\ N = 0

\* --------------------------------------------------------------------- C8
\* C8: rollback() that reads a marker matching no migration aborts (neither
\* Ok nor Err) before any marker write or down(); database unchanged.
C8_RollbackUnknownMarkerAborts ==
    \A p \in DOMAIN call :
        LET c == call[p]
        IN (Returned(c, "rollback") /\ IsSome(c.v0)
              /\ current_index(migrations, Unwrap(c.v0)) = None)
           => /\ c.result.kind = "Panic"
              /\ c.writes = <<>>
              /\ c.downs = <<>>
              /\ Untouched(c)

C8_Witness ==
    \E p \in DOMAIN call :
        /\ Returned(call[p], "rollback")
        /\ call[p].v0 = Some(Legacy)
        /\ N > 0
        /\ call[p].result.kind = "Panic"

\* --------------------------------------------------------------------- C9
\* C9: run() that reads a marker matching no migration treats the whole
\* list as outstanding: its first write renames the unknown column to the
\* first migration's marker, it invokes up() from the first migration in
\* list order, absent failures it returns Ok with the marker at the last
\* migration's marker, and it never reports the unknown marker as an error.
C9_RunUnknownMarkerReplaysAll ==
    \A p \in DOMAIN call :
        LET c == call[p]
        IN (Returned(c, "run") /\ IsSome(c.v0)
              /\ current_index(migrations, Unwrap(c.v0)) = None)
           => /\ c.result.kind \in {"Ok", "Err"}
              /\ c.result.kind = "Err" => c.failure \in {"update", "up"}
              /\ IsPrefix(c.ups, SliceFrom(migrations, 0))
              /\ N = 0 => c.result = Ok /\ c.writes = <<>> /\ Untouched(c)
              /\ N > 0 => /\ c.writes # <<>>
                          /\ c.writes[1].old = c.v0
                          /\ c.writes[1].new = Some(NameAt(0))
              /\ (N > 0 /\ c.failure = "none")
                    => /\ c.result = Ok
                       /\ c.ups = SliceFrom(migrations, 0)
                       /\ columns = {LastName}

C9_Witness ==
    \E p \in DOMAIN call :
        /\ Returned(call[p], "run")
        /\ call[p].v0 = Some(Legacy)
        /\ N >= 2
        /\ call[p].result = Ok
        /\ columns = {LastName}

\* -------------------------------------------------------------------- C10
\* C10: for a marker found at list index i, the up() calls of run() are, at
\* every moment, an initial segment of i+1, i+2, .., n-1 (increasing, none
\* skipped, none at index <= i), and the whole of it when run() returns Ok,
\* whatever the migrations' version() values.
C10_RunAppliesSuffixInListOrder ==
    \A p \in DOMAIN call :
        LET c == call[p]
            ci == current_index(migrations, Unwrap(c.v0))
        IN (c.op = "run" /\ IsSome(c.v0) /\ IsSome(ci))
           => /\ IsPrefix(c.ups, SliceFrom(migrations, Unwrap(ci) + 1))
              /\ (c.pc = "returned" /\ c.failure = "none")
                    => /\ c.result = Ok
                       /\ c.ups = SliceFrom(migrations, Unwrap(ci) + 1)

C10_Witness ==
    \E p \in DOMAIN call :
        /\ Returned(call[p], "run")
        /\ call[p].result = Ok
        /\ N >= 3
        /\ call[p].v0 = Some(NameAt(0))
        /\ call[p].ups = <<1, 2>>
        /\ Get(migrations, 1).version > Get(migrations, 2).version

\* -------------------------------------------------------------------- C11
\* C11: one rollback() call invokes down() of at most one migration, issues
\* at most one marker write and moves the marker by at most one list
\* position (to the entry before the one it was found at, or to no marker
\* table from the first entry), however many migrations are applied.
C11_RollbackIsSingleStep ==
    \A p \in DOMAIN call :
        LET c == call[p]
            ci == current_index(migrations, Unwrap(c.v0))
        IN c.op = "rollback"
           => /\ Len(c.downs) <= 1
              /\ Len(c.writes) <= 1
              /\ Cardinality(c.start_applied \ applied) <= 1
              /\ \/ columns = c.start_columns
                 \/ /\ IsSome(c.v0) /\ IsSome(ci)
                    /\ columns = IF Unwrap(ci) = 0 THEN {}
                                 ELSE {NameAt(Unwrap(ci) - 1)}

C11_Witness ==
    \E p \in DOMAIN call :
        /\ Returned(call[p], "rollback")
        /\ call[p].result = Ok
        /\ N >= 3
        /\ call[p].start_applied = 0..(N - 1)
        /\ applied = 0..(N - 2)
        /\ columns = {NameAt(N - 2)}

\* -------------------------------------------------------------------- C12
\* C12: the marker that run() persists for a migration m, as read back by
\* schema_version(), is m.version().serialize(), whatever m displays as.
C12_MarkerIsCanonicalVersion ==
    \A p \in DOMAIN call :
        LET c == call[p]
            m == Get(migrations, c.ups[Len(c.ups)])
        IN (Returned(c, "run") /\ c.result = Ok /\ c.ups # <<>>)
           => schema_version(columns) =
                 {[status |-> "ok", value |-> Some(serialize(m.version))]}

\* -------------------------------------------------------------------- C13
\* C13: when the marker table has more than one column, the version read
\* of run() and rollback() aborts fatally; it never takes one of the column
\* names as the current version.
C13_MultiColumnAborts ==
    \A p \in DOMAIN call :
        LET c == call[p]
        IN (c.op \in {"run", "rollback"}
              /\ c.pc \notin {"run_schema_version", "rollback_schema_version"}
              /\ Cardinality(c.start_columns) > 1
              /\ c.failure # "read")
           => /\ c.result.kind = "Panic"
              /\ ~IsSome(c.v0)

\* -------------------------------------------------------------------- C14
\* C14: whenever run() returns Ok, every migration of the registry is
\* applied (its up() completed and was not reverted since).
C14_RunOkMeansAllApplied ==
    \A p \in DOMAIN call :
        (Returned(call[p], "run") /\ call[p].result = Ok)
           => applied = 0..(N - 1)

\* -------------------------------------------------------------------- C15
\* C15: the migration whose down() rollback() invokes is the last migration
\* that was successfully applied: it is applied when rollback() is called,
\* and no later list entry is.
C15_RollbackUndoesLastApplied ==
    \A p \in DOMAIN call :
        LET c == call[p]
        IN (c.op = "rollback" /\ c.downs # <<>>)
           => /\ c.downs[1] \in c.start_applied
              /\ \A j \in c.start_applied : j <= c.downs[1]

\* -------------------------------------------------------------------- C16
\* C16: a run() that fails stops at the first failure and compensates
\* nothing: it never invokes down(); the up() calls are the outstanding
\* migrations in order up to the failing step, each once; no marker write
\* or up() follows the failing one; the migrations applied before the
\* failure stay applied and the marker stays where the last successful
\* write put it.
C16_FailedRunStopsAndKeepsProgress ==
    \A p \in DOMAIN call :
        LET c == call[p]
            out == outstanding_migrations(migrations, c.v0)
            done == IF c.failure = "up" THEN Len(c.ups) - 1 ELSE Len(c.ups)
            okw == {k \in 1..Len(c.writes) : c.writes[k].status = "ok"}
        IN (Returned(c, "run") /\ c.failure # "none")
           => /\ c.result.kind = "Err"
              /\ c.downs = <<>>
              /\ IsPrefix(c.ups, out)
              /\ Len(c.writes) = IF c.failure = "update" THEN Len(c.ups) + 1
                                 ELSE Len(c.ups)
              /\ \A k \in 1..Len(c.writes) :
                    /\ c.writes[k].new = Some(NameAt(out[k]))
                    /\ c.writes[k].status = "ok"
                          <=> (k < Len(c.writes) \/ c.failure # "update")
              /\ applied = c.start_applied \cup {c.ups[k] : k \in 1..done}
              /\ columns = IF okw = {} THEN c.start_columns
                           ELSE {Unwrap(c.writes[Cardinality(okw)].new)}

C16_Witness ==
    \E p \in DOMAIN call :
        /\ Returned(call[p], "run")
        /\ call[p].failure = "up"
        /\ N >= 3
        /\ call[p].ups = <<0, 1>>
        /\ applied = {0}
        /\ columns = {NameAt(1)}

C18_MarkerTableShape == Cardinality(columns) <= 1

C18_Witness ==
    /\ Cardinality(columns) = 1
    /\ \E p \in DOMAIN call :
         /\ call[p].pc = "run_up"
         /\ call[p].start_columns = {}
         /\ Len(call[p].writes) = 3
         /\ call[p].writes[1].old = None
         /\ call[p].writes[3].old # call[p].writes[3].new

\* -------------------------------------------------------------------- C20
\* C20: run() invokes up() of a migration only after the marker update to
\* that migration's marker has succeeded; when the marker update fails,
\* run() returns Err at once: up() of that migration is not invoked, the
\* marker keeps its previous value and no later migration is processed.
C20_UpOnlyAfterMarkerUpdate ==
    \A p \in DOMAIN call :
        LET c == call[p]
            n == Len(c.writes)
        IN c.op = "run" =>
             /\ \A k \in 1..Len(c.ups) :
                   /\ k <= n
                   /\ c.writes[k].status = "ok"
                   /\ c.writes[k].new = Some(to_string(Get(migrations, c.ups[k])))
             /\ c.failure = "update" =>
                   /\ c.pc \in {"returned", "rolled_back"}
                   /\ c.result.kind = "Err"
                   /\ c.writes[n].status = "err"
                   /\ Len(c.ups) = n - 1
                   /\ c.pc = "returned" =>
                        columns = IF n = 1 THEN c.start_columns
                                  ELSE {Unwrap(c.writes[n - 1].new)}

C20_Witness ==
    \E p \in DOMAIN call :
        /\ Returned(call[p], "run")
        /\ call[p].failure = "update"
        /\ Len(call[p].writes) = 2
        /\ call[p].outstanding = <<2>>
        /\ call[p].ups = <<1>>
        /\ applied = {0, 1}

\* -------------------------------------------------------------------- C21
\* C21: rollback() invokes down() of the migration being undone only after
\* its marker update (rename to the target, or drop of the table) has
\* succeeded; when that update fails, rollback() returns Err, down() is not
\* invoked and the marker keeps its previous value.
C21_DownOnlyAfterMarkerUpdate ==
    \A p \in DOMAIN call :
        LET c == call[p]
        IN c.op = "rollback" =>
             /\ \A k \in 1..Len(c.downs) :
                   /\ Len(c.writes) = 1
                   /\ c.writes[1].status = "ok"
                   /\ c.writes[1].old = Some(NameAt(c.downs[k]))
                   /\ c.writes[1].new = IF c.downs[k] = 0 THEN None
                                        ELSE Some(NameAt(c.downs[k] - 1))
             /\ c.failure = "update" =>
                   /\ c.pc \in {"returned", "rolled_back"}
                   /\ c.result.kind = "Err"
                   /\ c.downs = <<>>
                   /\ Len(c.writes) = 1
                   /\ c.writes[1].status = "err"
                   /\ c.pc = "returned" => Untouched(c)

C21_Witness ==
    \E p \in DOMAIN call :
        /\ Returned(call[p], "rollback")
        /\ call[p].failure = "update"
        /\ call[p].old_migration_index = 2
        /\ call[p].writes[1].new = Some(NameAt(1))
        /\ columns = {NameAt(2)}
        /\ applied = {0, 1, 2}

C23_InvalidMarkerIsReadError ==
    \A p \in DOMAIN call :
        LET c == call[p]
        IN (c.op \in {"run", "rollback"}
              /\ c.pc \notin {"run_schema_version", "rollback_schema_version"}
              /\ Cardinality(c.start_columns) = 1
              /\ \A name \in c.start_columns :
                    from_rfc3339_string(name).status = "err")
           => /\ ~IsSome(c.v0)
              /\ c.writes = <<>>
              /\ c.result.kind = "Err"

\* -------------------------------------------------------------------- C24
\* C24: with a single runner, every marker update that run() issues names
\* as its old value the marker persisted at that moment: the first update of
\* a call uses the value read at its start (create when None, rename
\* otherwise, also when the registry does not know the value), each later
\* one renames from the marker of the migration applied just before.
C24_UpdateNamesPersistedMarker ==
    [][\A p \in DOMAIN call :
          LET c == call[p]
              n == Len(c.writes)
          IN (c.pc = "run_update_schema_version" /\ Len(call'[p].writes) = n + 1)
             => LET w == call'[p].writes[n + 1]
                IN /\ schema_version(columns) = {[status |-> "ok", value |-> w.old]}
                   /\ w.old = IF n = 0 THEN c.v0
                              ELSE Some(NameAt(c.ups[Len(c.ups)]))
                   /\ n = Len(c.ups)]_vars

C24_Witness ==
    \E p \in DOMAIN call :
        /\ call[p].op = "run"
        /\ call[p].v0 = Some(Legacy)
        /\ Len(call[p].writes) = 3
        /\ call[p].writes[1].old = Some(Legacy)
        /\ call[p].writes[3].status = "ok"
        /\ call[p].writes[3].old = Some(NameAt(1))

\* -------------------------------------------------------------------- C25
\* C25: when the marker update of rollback() fails, the returned error
\* names the migration being rolled back (the one the marker pointed to),
\* whether it is the first of the list or a later one.
C25_UpdateErrorNamesRolledBack ==
    \A p \in DOMAIN call :
        LET c == call[p]
        IN (Returned(c, "rollback") /\ c.failure = "update")
           => /\ c.result.kind = "Err"
              /\ c.result.migration = c.old_migration_index
              /\ c.v0 = Some(NameAt(c.result.migration))

\* -------------------------------------------------------------------- C26
\* C26: provided every database call and migration body eventually returns,
\* every run() call returns; it issues at most one marker update and one
\* up() per outstanding migration and then returns Ok, or returns Err at the
\* first failure; with nothing outstanding (an empty registry included) it
\* returns Ok after the version read alone.
C26_RunTerminates ==
    /\ (\E p \in DOMAIN call : call[p].op = "run" /\ call[p].pc = "run_schema_version")
          ~> (\E p \in DOMAIN call : Returned(call[p], "run"))
    /\ [](\A p \in DOMAIN call :
            LET c == call[p]
                out == outstanding_migrations(migrations, c.v0)
            IN (c.op = "run" /\ c.pc # "run_schema_version" /\ c.failure # "read")
               => /\ Len(c.writes) <= Len(out)
                  /\ IsPrefix(c.ups, out)
                  /\ Len(c.ups) <= Len(c.writes)
                  /\ c.pc = "returned" =>
                       IF c.failure = "none"
                       THEN c.result = Ok /\ c.ups = out /\ Len(c.writes) = Len(out)
                       ELSE c.result.kind = "Err")

C26_Witness ==
    /\ N = 3
    /\ \E p \in DOMAIN call :
         /\ Returned(call[p], "run")
         /\ call[p].result = Ok
         /\ call[p].ups = <<0, 1, 2>>
         /\ Len(call[p].writes) = 3
         /\ call[p].start_columns = {Legacy}

\* -------------------------------------------------------------------- C27
\* C27: for a registry of pairwise distinct markers, from a database with no
\* marker table and with no database call failing, after any sequence of
\* completed run() and rollback() calls the marker is absent or is the
\* marker of a list entry, and the applied migrations are exactly the list
\* prefix ending at that entry (none when the marker is absent).
C27_AppliedIsPrefixAtMarker ==
    Quiescent =>
        \/ columns = {} /\ applied = {}
        \/ \E i \in 0..(N - 1) : columns = {NameAt(i)} /\ applied = 0..i

C27_Witness ==
    /\ N = 3
    /\ columns = {NameAt(0)}
    /\ applied = {0}
    /\ \E p \in DOMAIN call :
         /\ Returned(call[p], "rollback")
         /\ call[p].result = Ok
         /\ call[p].downs = <<1>>

\* -------------------------------------------------------------------- C28
\* C28 as stated: from a state where the marker names the last migration
\* and all migrations are applied, a successful rollback() followed by a
\* successful run() restores the same marker and the same applied
\* migrations, and that run() invokes up() of the last migration only.
C28_Original ==
    \A p \in DOMAIN call :
        LET c == call[p]
        IN (Returned(c, "run") /\ c.result = Ok /\ IsSome(c.undone) /\ N >= 1)
           => LET u == Unwrap(c.undone)
              IN (u.columns = {LastName} /\ u.applied = 0..(N - 1))
                 => /\ columns = u.columns
                    /\ applied = u.applied
                    /\ c.ups = <<N - 1>>

\* C28 amended: the same, provided neither of the last two migrations'
\* display strings is the display string of an earlier migration of the list.
C28_RollbackThenRunRestores ==
    \A p \in DOMAIN call :
        LET c == call[p]
        IN (Returned(c, "run") /\ c.result = Ok /\ IsSome(c.undone) /\ N >= 1)
           => LET u == Unwrap(c.undone)
              IN (/\ u.columns = {LastName}
                  /\ u.applied = 0..(N - 1)
                  /\ \A i \in 0..(N - 2) : NameAt(i) # LastName
                  /\ \A i \in 0..(N - 3) : NameAt(i) # NameAt(N - 2))
                 => /\ columns = u.columns
                    /\ applied = u.applied
                    /\ c.ups = <<N - 1>>

C28_Witness ==
    /\ N = 3
    /\ NameAt(0) # NameAt(2)
    /\ \E p \in DOMAIN call :
         /\ Returned(call[p], "run")
         /\ call[p].result = Ok
         /\ IsSome(call[p].undone)
         /\ Unwrap(call[p].undone).applied = {0, 1, 2}
         /\ Unwrap(call[p].undone).columns = {NameAt(2)}
         /\ call[p].ups = <<2>>

\* -------------------------------------------------------------------- C29
\* C29: when two run() calls over one registry of pairwise distinct markers
\* interleave statement by statement on one database (CREATE TABLE fails on
\* an existing table, RENAME COLUMN fails on an absent old column), no
\* migration's up() is invoked by both calls: the call that loses the race
\* on a marker update returns Err without running that body.
C29_NoUpByBothRuns ==
    /\ \A p, q \in DOMAIN call : p # q => Ups(call[p]) \cap Ups(call[q]) = {}
    /\ \A p \in DOMAIN call :
          LET c == call[p]
          IN c.failure = "update"
             => /\ Returned(c, "run")
                /\ c.result.kind = "Err"
                /\ Len(c.ups) = Len(c.writes) - 1

C29_Witness ==
    /\ N = 3
    /\ applied = {0, 1, 2}
    /\ call[1].pc = "returned"
    /\ call[2].pc = "returned"
    /\ call[1].ups = <<0>>
    /\ call[1].failure = "update"
    /\ call[1].writes[2].old = Some(NameAt(0))
    /\ call[2].ups = <<1, 2>>
    /\ call[2].result = Ok

C31_NoneToNoneUnreachable ==
    \A p \in DOMAIN call :
        LET c == call[p]
        IN /\ c.result # Panic("None to None")
           /\ \A k \in 1..Len(c.writes) :
                 /\ IsSome(c.writes[k].old) \/ IsSome(c.writes[k].new)
                 /\ c.writes[k].status # "panic"
                 /\ c.op = "run" => IsSome(c.writes[k].new)
                 /\ c.op = "rollback" => IsSome(c.writes[k].old)

C31_Witness ==
    /\ N = 2
    /\ columns = {}
    /\ \E p \in DOMAIN call :
         /\ Returned(call[p], "rollback")
         /\ call[p].writes = <<[old |-> Some(NameAt(0)), new |-> None,
                                status |-> "ok"]>>
         /\ call[p].start_applied = {0}
         /\ call[p].downs = <<0>>
         /\ call[p].result = Ok

\* -------------------------------------------------------------------- C32
\* C32: the index arithmetic of run() and rollback() stays in bounds: when
\* the marker is found at index i the slice migrations[i+1..] is valid
\* (empty when i is the last index), in rollback() migrations[i] exists and
\* migrations[i-1] is taken only when i > 0; the only abort on a list
\* lookup is rollback() on a marker the registry does not know.
C32_IndexInBounds ==
    /\ \A name \in Names \cup {Legacy} :
          LET ci == current_index(migrations, name)
          IN IsSome(ci) =>
               /\ GetInBounds(migrations, Unwrap(ci))
               /\ SliceInBounds(migrations, Unwrap(ci) + 1)
               /\ to_string(Get(migrations, Unwrap(ci))) = name
               /\ Len(outstanding_migrations(migrations, Some(name)))
                     = N - 1 - Unwrap(ci)
    /\ \A p \in DOMAIN call :
          LET c == call[p]
              i == c.old_migration_index
          IN /\ \A k \in 1..Len(c.outstanding) :
                   GetInBounds(migrations, c.outstanding[k])
             /\ (c.op = "rollback" /\ c.writes # <<>>) =>
                   /\ GetInBounds(migrations, i)
                   /\ c.v0 = Some(NameAt(i))
                   /\ IsSome(c.writes[1].new) =>
                         i > 0 /\ GetInBounds(migrations, i - 1)
             /\ c.result.kind = "Panic" =>
                   /\ c.op = "rollback"
                   /\ IsSome(c.v0)
                   /\ ~IsSome(current_index(migrations, Unwrap(c.v0)))
                   /\ c.writes = <<>>

C32_Witness ==
    /\ N = 3
    /\ DistinctNames
    /\ \E p \in DOMAIN call :
         /\ call[p].pc = "rollback_down"
         /\ call[p].old_migration_index = 2
         /\ call[p].writes[1].new = Some(NameAt(1))
         /\ outstanding_migrations(migrations, call[p].v0) = <<>>

====
